---- MODULE Spec2Model ----
(***************************************************************************)
(* Model of youtube_downloader.downloader.YouTubeDownloader: the entry     *)
(* point download(), the batch orchestrator download_playlist() with its   *)
(* ThreadPoolExecutor pass 0 and sequential retry rounds, and the          *)
(* single-item downloader download_single_video().                         *)
(*                                                                         *)
(* A video is identified by its 1-based position in playlist.videos.  The  *)
(* remote service (stream resolution, title lookup, byte transfer) is the  *)
(* environment: every call draws its behaviour nondeterministically.       *)
(***************************************************************************)
EXTENDS Integers, Sequences, FiniteSets, TLC

\* ---- bounds of the model ------------------------------------------------
MaxVideos == 3
MaxRetryAttempts == 2
MaxConcurrent == 2
MaxTitleLen == 3
MaxCalls == 2

\* index=None of download_single_video (downloader.py:72)
None == 0

VARIABLES
    target,          \* "playlist" or "single": the test `"playlist" in url.lower()`
    n,               \* number of videos behind the url
    retry,           \* self.retry
    retry_attempts,  \* self.retry_attempts
    max_concurrent,  \* self.max_concurrent
    pc,              \* position of the main thread
    raised_at,       \* where the exception that left download() was raised
    total_videos,    \* local total_videos of download_playlist
    queue,           \* work queue of the executor (indices not yet picked up)
    inflight,        \* indices whose download_task is running in a worker
    future,          \* state/result of the future of every submitted task
    results,         \* local results: sequence of <<index, success>>
    failed_videos,   \* local failed_videos (sequence of indices)
    still_failed,    \* local still_failed of the current retry round
    success_count,   \* local success_count
    attempt,         \* loop variable of the retry loop (0 before the loop)
    pos,             \* position of the inner loop in failed_videos
    maincall,        \* download_single_video call running on the main thread
    calls,           \* per video: number of download_single_video calls started
    log,             \* per video: outcomes of its finished calls, in order
    completed,       \* indices of the pass-0 tasks in the order they finished
    prefix_index,    \* self.prefix_index
    audio_only,      \* self.audio_only
    audio_format,    \* self.audio_format
    title,           \* per video: yt.title, a sequence of characters
    stage,           \* per video: how far its running call has got
    files,           \* destination directory: file name |-> video whose bytes it holds
    names,           \* per video: the values of `filename` its calls computed
    reported,        \* the summary logged: <<total, succeeded, failed list>>
    raw,             \* argument `filename` of sanitize_filename
    sanitized,       \* results of applying sanitize_filename to raw, then to its result
    tree,            \* filesystem: path |-> "absent", "dir" or "file"
    mk_log           \* the calls of create_output_directory made so far

vars == <<target, n, retry, retry_attempts, max_concurrent, pc, raised_at,
          total_videos, queue, inflight, future, results, failed_videos,
          still_failed, success_count, attempt, pos, maincall, calls, log,
          completed, prefix_index, audio_only, audio_format, title, stage,
          files, names, reported, raw, sanitized, tree, mk_log>>

\* state of the two functions studied on their own
aside == <<raw, sanitized, tree, mk_log>>

config == <<target, n, retry, retry_attempts, max_concurrent, prefix_index,
            audio_only, audio_format, title>>

Videos == 1..MaxVideos

\* ---- helpers ------------------------------------------------------------
RECURSIVE SeqOfRange(_, _)
SeqOfRange(a, b) == IF a > b THEN <<>> ELSE <<a>> \o SeqOfRange(a + 1, b)

InSeq(x, s) == \E k \in 1..Len(s) : s[k] = x

StreamResults == {"stream", "none", "error"}

\* ---- download_single_video ----------------------------------------------
\* get_stream: the stream, None, or an exception leaving the handler because
\* the handler itself formats yt.title.
get_stream(streamRes, titleOK) ==
    IF streamRes = "error"
    THEN IF titleOK THEN "None" ELSE "Raise"
    ELSE IF streamRes = "none" THEN "None" ELSE "stream"

\* Body of the try block of download_single_video: "True", "False", or
\* "Raise" when an exception reaches the except clause.
TryBody(streamRes, titleOK, transferOK) ==
    LET stream == get_stream(streamRes, titleOK) IN
    IF stream = "Raise" THEN "Raise"
    ELSE IF stream = "None" THEN (IF titleOK THEN "False" ELSE "Raise")
    ELSE IF ~titleOK THEN "Raise"
    ELSE IF ~transferOK THEN "Raise"
    ELSE "True"

\* The except clause logs yt.title before returning False: "Raise" here is an
\* exception that leaves download_single_video.
download_single_video(streamRes, titleOK, transferOK) ==
    LET body == TryBody(streamRes, titleOK, transferOK) IN
    IF body = "Raise"
    THEN IF titleOK THEN "False" ELSE "Raise"
    ELSE body


\* ---- utils.sanitize_filename ----------------------------------------------
\* the character class of re.sub(r'[<>:"/\\|?*]', '', filename)
Forbidden == {"<", ">", ":", "\"", "/", "\\", "|", "?", "*"}

\* characters removed by str.strip()
Whitespace == {" ", "\t", "\n", "\r"}

RemoveForbidden(str) == SelectSeq(str, LAMBDA c : c \notin Forbidden)

RECURSIVE LStrip(_)
LStrip(str) ==
    IF str # <<>> /\ Head(str) \in Whitespace THEN LStrip(Tail(str)) ELSE str

RECURSIVE RStrip(_)
RStrip(str) ==
    IF str # <<>> /\ str[Len(str)] \in Whitespace
    THEN RStrip(SubSeq(str, 1, Len(str) - 1))
    ELSE str

Strip(str) == RStrip(LStrip(str))

sanitize_filename_StripFirst(filename) == RemoveForbidden(Strip(filename))

sanitize_filename(filename) == Strip(RemoveForbidden(filename))

\* playlist_folder_name, downloader.py:130
playlist_folder_name(playlist_title) == sanitize_filename(playlist_title)

\* ---- create_output_directory ----------------------------------------------
DirNames == {"x", "y"}

\* the paths below the root, one or two components deep
Paths == {<<a>> : a \in DirNames} \cup {<<a, b>> : a, b \in DirNames}

Parent(p) == SubSeq(p, 1, Len(p) - 1)

\* what is at path p; the root is a directory
Kind(fs, p) == IF p = <<>> THEN "dir" ELSE fs[p]

\* os.mkdir(p)
os_mkdir(fs, p) ==
    IF Kind(fs, Parent(p)) = "absent"
    THEN [err |-> "FileNotFoundError", fs |-> fs]
    ELSE IF Kind(fs, Parent(p)) = "file"
    THEN [err |-> "NotADirectoryError", fs |-> fs]
    ELSE IF Kind(fs, p) # "absent"
    THEN [err |-> "FileExistsError", fs |-> fs]
    ELSE [err |-> "none", fs |-> [fs EXCEPT ![p] = "dir"]]

\* pathlib.Path.mkdir(parents, exist_ok)
RECURSIVE mkdir(_, _, _, _)
mkdir(fs, p, parents, exist_ok) ==
    LET r == os_mkdir(fs, p) IN
    IF r.err = "none" THEN r
    ELSE IF r.err = "FileNotFoundError"
    THEN IF ~parents \/ Parent(p) = p THEN r
         ELSE LET q == mkdir(fs, Parent(p), TRUE, TRUE)
              IN IF q.err # "none" THEN q
                 ELSE mkdir(q.fs, p, FALSE, exist_ok)
    ELSE IF ~exist_ok \/ Kind(fs, p) # "dir" THEN r
    ELSE [err |-> "none", fs |-> fs]

create_output_directory_NoExistOk(fs, output_path) ==
    mkdir(fs, output_path, TRUE, FALSE)

create_output_directory(fs, output_path) ==
    mkdir(fs, output_path, TRUE, TRUE)

\* ---- file names of download_single_video ----------------------------------
DigitChars == <<"0", "1", "2", "3", "4", "5", "6", "7", "8", "9">>

RECURSIVE Decimal(_)
Decimal(k) ==
    IF k < 10 THEN <<DigitChars[k + 1]>>
    ELSE Decimal(k \div 10) \o <<DigitChars[(k % 10) + 1]>>

\* f"{index:02d}"
Pad2(k) == IF k < 10 THEN <<"0">> \o Decimal(k) ELSE Decimal(k)

Mp3Mode(ao, af) == ao /\ af = "mp3"

\* ext, line 90
Ext_AudioOnlyIsMp3(ao, af) == IF ao THEN <<"m", "p", "3">> ELSE <<"m", "p", "4">>

Ext(ao, af) == IF Mp3Mode(ao, af) THEN <<"m", "p", "3">> ELSE <<"m", "p", "4">>

\* filename, lines 91-93
FileName_IgnoreNone(t, index, pfx, ao, af) ==
    LET filename == sanitize_filename(t) \o <<".">> \o Ext(ao, af) IN
    IF pfx THEN Pad2(index) \o <<"_">> \o filename ELSE filename

FileName(t, index, pfx, ao, af) ==
    LET filename == sanitize_filename(t) \o <<".">> \o Ext(ao, af) IN
    IF index # None /\ pfx THEN Pad2(index) \o <<"_">> \o filename ELSE filename

\* temp_path.name, line 98
TempName(filename, ao, af) ==
    IF Mp3Mode(ao, af) THEN <<"t", "e", "m", "p", "_">> \o filename ELSE filename

RECURSIVE LastDot(_)
LastDot(name) ==
    IF name = <<>> THEN 0
    ELSE IF name[Len(name)] = "." THEN Len(name)
    ELSE LastDot(SubSeq(name, 1, Len(name) - 1))

\* output_path.with_suffix(".mp4").name: pathlib sees a suffix only when the
\* last dot is neither the first nor the last character of the name
WithSuffixMp4(name) ==
    LET d == LastDot(name) IN
    IF d > 1 /\ d < Len(name)
    THEN SubSeq(name, 1, d - 1) \o <<".", "m", "p", "4">>
    ELSE name \o <<".", "m", "p", "4">>

\* ---- the destination directory --------------------------------------------
Write(fs, name, v) ==
    [q \in DOMAIN fs \cup {name} |-> IF q = name THEN v ELSE fs[q]]

Remove(fs, name) == [q \in DOMAIN fs \ {name} |-> fs[q]]

\* Path.rename of an existing file (replaces the destination)
Rename(fs, from, to) == Remove(Write(fs, to, fs[from]), from)

FfmpegResults == {"unavailable", "fails", "ok"}

\* utils.convert_to_mp3: every failure is caught and reported as False
convert_to_mp3(ffmpeg, fs, input, output) ==
    IF ffmpeg = "ok" /\ input \in DOMAIN fs
    THEN [ok |-> TRUE, files |-> Remove(Write(fs, output, fs[input]), input)]
    ELSE [ok |-> FALSE, files |-> fs]

\* lines 113-118 and, when the rename raises, the except clause
PostProcess(t, index, pfx, ao, af, ffmpeg, fs) ==
    LET filename == FileName(t, index, pfx, ao, af)
        temp == TempName(filename, ao, af)
    IN IF ~Mp3Mode(ao, af) THEN [r |-> "True", files |-> fs]
       ELSE LET c == convert_to_mp3(ffmpeg, fs, temp, filename) IN
            IF c.ok THEN [r |-> "True", files |-> c.files]
            ELSE IF temp \in DOMAIN c.files
                 THEN [r |-> "True",
                       files |-> Rename(c.files, temp, WithSuffixMp4(filename))]
                 ELSE [r |-> "False", files |-> c.files]

\* ---- pieces of download_playlist ----------------------------------------
\* Lines 129-134 are outside any try: an error of playlist.title or of
\* playlist.videos leaves download_playlist before the pool exists.
EnumerateNext_Swallow(titleOK, videosOK) == "executor"

EnumerateNext(titleOK, videosOK) ==
    IF titleOK /\ videosOK THEN "executor" ELSE "raised"

\* A worker thread is free to take the next work item.
WorkerAvailable_Unbounded(running, max_workers) == TRUE

WorkerAvailable(running, max_workers) == Cardinality(running) < max_workers

\* executor.map yields results in submission order: the next future awaited.
NextFuture_AsCompleted(res, fut) ==
    LET ready == {j \in Videos : /\ fut[j] \in {"True", "False", "Raise"}
                                 /\ \A k \in 1..Len(res) : res[k][1] # j}
    IN IF ready = {} THEN Len(res) + 1
       ELSE CHOOSE j \in ready : TRUE

NextFuture(res, fut) == Len(res) + 1

TallySuccess_CountAll(res) == Len(res)

RECURSIVE TallySuccess(_)
TallySuccess(res) ==
    IF res = <<>> THEN 0
    ELSE (IF Head(res)[2] THEN 1 ELSE 0) + TallySuccess(Tail(res))

RECURSIVE TallyFailed(_)
TallyFailed(res) ==
    IF res = <<>> THEN <<>>
    ELSE (IF Head(res)[2] THEN <<>> ELSE <<Head(res)[1]>>) \o TallyFailed(Tail(res))

\* list(...) has consumed every result and the `with` block has been left
AllCollected_Partial(res, total) == Len(res) >= 1

AllCollected(res, total) == Len(res) = total

\* `if self.retry and failed_videos`
RetryEntered_IgnoreFlag(r, failed) == failed # <<>>

RetryEntered(r, failed) == r /\ failed # <<>>

\* `for attempt in range(1, self.retry_attempts + 1)`: another round exists
HasNextAttempt_OffByOne(a, attempts) == a <= attempts

HasNextAttempt(a, attempts) == a < attempts

\* `for index, video in failed_videos`: the item of the p-th iteration
RetryPick_Reversed(failed, p) == failed[Len(failed) + 1 - p]

RetryPick(failed, p) == failed[p]

\* `if ...: success_count += 1  else: still_failed.append((index, video))`
StillFailedAfter_Always(still, i, r) == Append(still, i)

StillFailedAfter(still, i, r) == IF r = "True" THEN still ELSE Append(still, i)

\* `failed_videos = still_failed`
RoundEndFailed_Stale(failed, still) == failed

RoundEndFailed(failed, still) == still

\* `if not failed_videos: break`
BreakLoop_Never(failed) == FALSE

BreakLoop(failed) == failed = <<>>

\* ---- initial state --------------------------------------------------------
\* titles as the remote service may supply them
RawTitles == {<<"a">>, <<"a", "/">>, <<" ", "b">>}

DefaultTitle == <<"a">>

\* state of a YouTubeDownloader on which download() has not been called yet
InitRun ==
    /\ pc = "download"
    /\ raised_at = "none"
    /\ total_videos = 0
    /\ queue = <<>>
    /\ inflight = {}
    /\ future = [i \in Videos |-> "none"]
    /\ results = <<>>
    /\ failed_videos = <<>>
    /\ still_failed = <<>>
    /\ success_count = 0
    /\ attempt = 0
    /\ pos = 0
    /\ maincall = <<>>
    /\ calls = [i \in Videos |-> 0]
    /\ log = [i \in Videos |-> <<>>]
    /\ completed = <<>>
    /\ stage = [i \in Videos |-> "idle"]
    /\ files = <<>>
    /\ names = [i \in Videos |-> {}]
    /\ reported = <<>>

\* sanitize_filename and create_output_directory not under study
AsideIdle ==
    /\ raw = <<>>
    /\ sanitized = <<>>
    /\ tree = [p \in Paths |-> "absent"]
    /\ mk_log = <<>>

\* a downloader with the settings of cli.py on which nothing is run
ConfigIdle ==
    /\ target = "single"
    /\ n = 1
    /\ retry = FALSE
    /\ retry_attempts = 1
    /\ max_concurrent = 1
    /\ prefix_index = TRUE
    /\ audio_only = FALSE
    /\ audio_format = "mp4"
    /\ title = [i \in Videos |-> DefaultTitle]

\* every orchestration setting; the file options at the defaults of cli.py
Init ==
    /\ target \in {"playlist", "single"}
    /\ n \in 0..MaxVideos
    /\ (target = "single" => n = 1)
    /\ retry \in BOOLEAN
    /\ retry_attempts \in 0..MaxRetryAttempts
    /\ max_concurrent \in (-1)..MaxConcurrent
    /\ prefix_index = TRUE
    /\ audio_only = FALSE
    /\ audio_format = "mp4"
    /\ title = [i \in Videos |-> DefaultTitle]
    /\ InitRun
    /\ AsideIdle

\* every file option and title, on smaller batches
InitFiles ==
    /\ target \in {"playlist", "single"}
    /\ n \in 0..(MaxVideos - 1)
    /\ (target = "single" => n = 1)
    /\ retry \in BOOLEAN
    /\ retry_attempts = 1
    /\ max_concurrent \in 1..MaxConcurrent
    /\ prefix_index \in BOOLEAN
    /\ audio_only \in BOOLEAN
    /\ audio_format \in {"mp4", "mp3"}
    /\ title \in [Videos -> RawTitles]
    /\ \A i \in Videos : i > n => title[i] = DefaultTitle
    /\ InitRun
    /\ AsideIdle

\* ---- a running call of download_single_video -------------------------------
\* index argument of the call running on video v
IndexOf(v) == IF v \in inflight THEN v ELSE maincall[2]

\* The ways the running call on video v can end.  Before stream.download has
\* completed: the failures of lines 85-111.  After it: lines 113-118.
ReturnOutcomes(v, index) ==
    IF stage[v] = "transfer"
    THEN {o \in {[r |-> download_single_video(s, t, x), files |-> files,
                  named |-> (get_stream(s, t) = "stream" /\ t)] :
                    s \in StreamResults, t \in BOOLEAN, x \in BOOLEAN} :
             o.r # "True"}
    ELSE {[r |-> p.r, files |-> p.files, named |-> FALSE] :
             p \in {PostProcess(title[v], index, prefix_index, audio_only,
                                audio_format, ff, files) : ff \in FfmpegResults}}

\* `filename` of the call on video v, lines 90-93
NameOf(v, index) ==
    FileName(title[v], index, prefix_index, audio_only, audio_format)

\* names after a call on video v ended with outcome o
NamesAfter(v, index, o) ==
    IF o.named THEN [names EXCEPT ![v] = @ \cup {NameOf(v, index)}] ELSE names

\* stream.download(...) of the call on video v completes: the bytes are in
\* temp_path
Transfer(v) ==
    /\ stage[v] = "transfer"
    /\ LET filename == NameOf(v, IndexOf(v))
       IN /\ files' = Write(files, TempName(filename, audio_only, audio_format), v)
          /\ names' = [names EXCEPT ![v] = @ \cup {filename}]
    /\ stage' = [stage EXCEPT ![v] = "post"]
    /\ UNCHANGED aside
    /\ UNCHANGED <<config, pc, raised_at, total_videos, queue, inflight,
                   future, results, failed_videos, still_failed,
                   success_count, attempt, pos, maincall, calls, log,
                   completed, reported>>

\* ---- download(): dispatch on the kind of target ---------------------------
DownloadPlaylistTarget ==
    /\ pc = "download"
    /\ target = "playlist"
    /\ \E dirOK \in BOOLEAN :
         /\ pc' = (IF dirOK THEN "download_playlist" ELSE "raised")
         /\ raised_at' = (IF dirOK THEN raised_at ELSE "create_output_directory")
    /\ UNCHANGED <<completed, stage, files, names, reported>>
    /\ UNCHANGED aside
    /\ UNCHANGED <<config, total_videos, queue, inflight, future,
                   results, failed_videos, still_failed, success_count,
                   attempt, pos, maincall, calls, log>>

DownloadSingleTarget ==
    /\ pc = "download"
    /\ target = "single"
    /\ \E dirOK \in BOOLEAN :
         IF dirOK
         THEN /\ maincall' = <<1, None>>
              /\ calls' = [calls EXCEPT ![1] = @ + 1]
              /\ stage' = [stage EXCEPT ![1] = "transfer"]
              /\ pc' = "single_call"
              /\ UNCHANGED raised_at
         ELSE /\ pc' = "raised"
              /\ raised_at' = "create_output_directory"
              /\ UNCHANGED <<maincall, calls, stage>>
    /\ UNCHANGED <<completed, files, names, reported>>
    /\ UNCHANGED aside
    /\ UNCHANGED <<config, total_videos, queue, inflight, future,
                   results, failed_videos, still_failed, success_count,
                   attempt, pos, log>>

SingleReturn ==
    /\ pc = "single_call"
    /\ \E o \in ReturnOutcomes(1, None) :
         LET r == o.r IN
         /\ files' = o.files
         /\ names' = NamesAfter(1, None, o)
         /\ log' = [log EXCEPT ![1] = Append(@, r)]
         /\ IF r = "Raise"
            THEN /\ pc' = "raised"
                 /\ raised_at' = "single"
                 /\ UNCHANGED <<success_count, reported>>
            ELSE /\ pc' = "done"
                 /\ success_count' = (IF r = "True" THEN 1 ELSE 0)
                 /\ reported' = <<1, success_count',
                                  IF r = "True" THEN <<>> ELSE <<1>>>>
                 /\ UNCHANGED raised_at
    /\ maincall' = <<>>
    /\ stage' = [stage EXCEPT ![1] = "idle"]
    /\ UNCHANGED completed
    /\ UNCHANGED aside
    /\ UNCHANGED <<config, total_videos, queue, inflight, future, results,
                   failed_videos, still_failed, attempt, pos, calls>>

\* ---- download_playlist ----------------------------------------------------
\* playlist.title, sanitize, create_output_directory, len(playlist.videos)
Enumerate ==
    /\ pc = "download_playlist"
    /\ \E titleOK \in BOOLEAN, dirOK \in BOOLEAN, videosOK \in BOOLEAN :
         /\ pc' = (IF titleOK /\ ~dirOK THEN "raised"
                   ELSE EnumerateNext(titleOK, videosOK))
         /\ raised_at' = (IF ~titleOK THEN "enumerate"
                          ELSE IF ~dirOK THEN "create_output_directory"
                          ELSE IF ~videosOK THEN "enumerate"
                          ELSE raised_at)
         /\ total_videos' = (IF pc' = "executor" THEN n ELSE total_videos)
    /\ UNCHANGED <<completed, stage, files, names, reported>>
    /\ UNCHANGED aside
    /\ UNCHANGED <<config, queue, inflight, future, results, failed_videos,
                   still_failed, success_count, attempt, pos, maincall,
                   calls, log>>

\* ThreadPoolExecutor(max_workers=...) and executor.map submitting every item
ThreadPoolExecutor ==
    /\ pc = "executor"
    /\ IF max_concurrent <= 0
       THEN /\ pc' = "raised"
            /\ raised_at' = "executor"
            /\ UNCHANGED <<queue, future>>
       ELSE /\ queue' = SeqOfRange(1, n)
            /\ future' = [i \in Videos |-> IF i <= n THEN "pending" ELSE "none"]
            /\ pc' = "collect"
            /\ UNCHANGED raised_at
    /\ UNCHANGED <<completed, stage, files, names, reported>>
    /\ UNCHANGED aside
    /\ UNCHANGED <<config, total_videos, inflight, results, failed_videos,
                   still_failed, success_count, attempt, pos, maincall,
                   calls, log>>

\* a worker takes the head of the work queue and calls download_task
WorkerStart ==
    /\ queue # <<>>
    /\ WorkerAvailable(inflight, max_concurrent)
    /\ LET i == Head(queue) IN
         /\ inflight' = inflight \cup {i}
         /\ future' = [future EXCEPT ![i] = "running"]
         /\ calls' = [calls EXCEPT ![i] = @ + 1]
         /\ stage' = [stage EXCEPT ![i] = "transfer"]
    /\ queue' = Tail(queue)
    /\ UNCHANGED <<completed, files, names, reported>>
    /\ UNCHANGED aside
    /\ UNCHANGED <<config, pc, raised_at, total_videos, results,
                   failed_videos, still_failed, success_count, attempt, pos,
                   maincall, log>>

\* download_task returns (or raises) in its worker
WorkerFinish(i) ==
    /\ i \in inflight
    /\ \E o \in ReturnOutcomes(i, i) :
         /\ files' = o.files
         /\ names' = NamesAfter(i, i, o)
         /\ future' = [future EXCEPT ![i] = o.r]
         /\ log' = [log EXCEPT ![i] = Append(@, o.r)]
    /\ inflight' = inflight \ {i}
    /\ completed' = Append(completed, i)
    /\ stage' = [stage EXCEPT ![i] = "idle"]
    /\ UNCHANGED reported
    /\ UNCHANGED aside
    /\ UNCHANGED <<config, pc, raised_at, total_videos, queue, results,
                   failed_videos, still_failed, success_count, attempt, pos,
                   maincall, calls>>

\* list(executor.map(...)): the main thread takes the result of the next
\* future; an exception stored in it is re-raised, the result iterator
\* cancels the futures not yet started and the `with` exit joins the pool.
Collect ==
    /\ pc = "collect"
    /\ Len(results) < n
    /\ LET i == NextFuture(results, future) IN
         /\ future[i] \in {"True", "False", "Raise"}
         /\ IF future[i] = "Raise"
            THEN /\ queue' = <<>>
                 /\ future' = [j \in Videos |->
                                 IF future[j] = "pending" THEN "cancelled"
                                 ELSE future[j]]
                 /\ pc' = "shutdown"
                 /\ UNCHANGED results
            ELSE /\ results' = Append(results, <<i, future[i] = "True">>)
                 /\ UNCHANGED <<queue, future, pc>>
    /\ UNCHANGED <<completed, stage, files, names, reported>>
    /\ UNCHANGED aside
    /\ UNCHANGED <<config, raised_at, total_videos, inflight, failed_videos,
                   still_failed, success_count, attempt, pos, maincall,
                   calls, log>>

\* executor.__exit__ after an exception: shutdown(wait=True), then propagate
ShutdownRaise ==
    /\ pc = "shutdown"
    /\ inflight = {}
    /\ pc' = "raised"
    /\ raised_at' = "pass0"
    /\ UNCHANGED <<completed, stage, files, names, reported>>
    /\ UNCHANGED aside
    /\ UNCHANGED <<config, total_videos, queue, inflight, future, results,
                   failed_videos, still_failed, success_count, attempt, pos,
                   maincall, calls, log>>

\* every result collected: leave the `with` block, tally, test the retry guard
Tally ==
    /\ pc = "collect"
    /\ AllCollected(results, n)
    /\ success_count' = TallySuccess(results)
    /\ failed_videos' = TallyFailed(results)
    /\ pc' = IF RetryEntered(retry, failed_videos') THEN "retry_for" ELSE "summary"
    /\ UNCHANGED <<completed, stage, files, names, reported>>
    /\ UNCHANGED aside
    /\ UNCHANGED <<config, raised_at, total_videos, queue, inflight, future,
                   results, still_failed, attempt, pos, maincall, calls, log>>

\* head of `for attempt in range(1, self.retry_attempts + 1)`
RetryFor ==
    /\ pc = "retry_for"
    /\ IF HasNextAttempt(attempt, retry_attempts)
       THEN /\ attempt' = attempt + 1
            /\ still_failed' = <<>>
            /\ pos' = 1
            /\ pc' = "retry_item"
       ELSE /\ pc' = "summary"
            /\ UNCHANGED <<attempt, still_failed, pos>>
    /\ UNCHANGED <<completed, stage, files, names, reported>>
    /\ UNCHANGED aside
    /\ UNCHANGED <<config, raised_at, total_videos, queue, inflight, future,
                   results, failed_videos, success_count, maincall, calls, log>>

\* `for index, video in failed_videos`: log video.title, call
\* download_single_video on the main thread
RetryItem ==
    /\ pc = "retry_item"
    /\ pos <= Len(failed_videos)
    /\ \E titleOK \in BOOLEAN :
         IF titleOK
         THEN /\ maincall' = <<RetryPick(failed_videos, pos),
                                RetryPick(failed_videos, pos)>>
              /\ calls' = [calls EXCEPT ![RetryPick(failed_videos, pos)] = @ + 1]
              /\ stage' = [stage EXCEPT ![RetryPick(failed_videos, pos)] = "transfer"]
              /\ pc' = "retry_call"
              /\ UNCHANGED raised_at
         ELSE /\ pc' = "raised"
              /\ raised_at' = "retry"
              /\ UNCHANGED <<maincall, calls, stage>>
    /\ UNCHANGED <<completed, files, names, reported>>
    /\ UNCHANGED aside
    /\ UNCHANGED <<config, total_videos, queue, inflight, future, results,
                   failed_videos, still_failed, success_count, attempt, pos,
                   log>>

RetryReturn ==
    /\ pc = "retry_call"
    /\ \E o \in ReturnOutcomes(maincall[1], maincall[2]) :
         LET r == o.r
             i == maincall[1]
         IN
         /\ files' = o.files
         /\ names' = NamesAfter(i, maincall[2], o)
         /\ stage' = [stage EXCEPT ![i] = "idle"]
         /\ log' = [log EXCEPT ![i] = Append(@, r)]
         /\ IF r = "Raise"
            THEN /\ pc' = "raised"
                 /\ raised_at' = "retry"
                 /\ UNCHANGED <<success_count, still_failed, pos>>
            ELSE /\ success_count' = success_count + (IF r = "True" THEN 1 ELSE 0)
                 /\ still_failed' = StillFailedAfter(still_failed, i, r)
                 /\ pos' = pos + 1
                 /\ pc' = "retry_item"
                 /\ UNCHANGED raised_at
    /\ maincall' = <<>>
    /\ UNCHANGED <<completed, reported>>
    /\ UNCHANGED aside
    /\ UNCHANGED <<config, total_videos, queue, inflight, future, results,
                   failed_videos, attempt, calls>>

\* end of a retry round: failed_videos = still_failed, break when empty
RetryRoundEnd ==
    /\ pc = "retry_item"
    /\ pos > Len(failed_videos)
    /\ failed_videos' = RoundEndFailed(failed_videos, still_failed)
    /\ pc' = IF BreakLoop(failed_videos') THEN "summary" ELSE "retry_for"
    /\ UNCHANGED <<completed, stage, files, names, reported>>
    /\ UNCHANGED aside
    /\ UNCHANGED <<config, raised_at, total_videos, queue, inflight, future,
                   results, still_failed, success_count, attempt, pos,
                   maincall, calls, log>>

\* the summary lists every failed video with video.title and video.watch_url
Summary ==
    /\ pc = "summary"
    /\ \E titleOK \in BOOLEAN :
         IF failed_videos # <<>> /\ ~titleOK
         THEN /\ pc' = "raised"
              /\ raised_at' = "summary"
         ELSE /\ pc' = "done"
              /\ UNCHANGED raised_at
    /\ reported' = <<total_videos, success_count, failed_videos>>
    /\ UNCHANGED <<completed, stage, files, names>>
    /\ UNCHANGED aside
    /\ UNCHANGED <<config, total_videos, queue, inflight, future, results,
                   failed_videos, still_failed, success_count, attempt, pos,
                   maincall, calls, log>>

Next ==
    \/ DownloadPlaylistTarget
    \/ DownloadSingleTarget
    \/ SingleReturn
    \/ Enumerate
    \/ ThreadPoolExecutor
    \/ WorkerStart
    \/ \E v \in Videos : Transfer(v)
    \/ \E i \in Videos : WorkerFinish(i)
    \/ Collect
    \/ ShutdownRaise
    \/ Tally
    \/ RetryFor
    \/ RetryItem
    \/ RetryReturn
    \/ RetryRoundEnd
    \/ Summary

Spec == Init /\ [][Next]_vars

SpecFiles == InitFiles /\ [][Next]_vars

\* ---- sanitize_filename on its own ------------------------------------------
\* characters a title is made of: ordinary, whitespace, forbidden
TitleChars == {"a", ".", " ", "\t", "/", "?"}

Titles == UNION {[1..m -> TitleChars] : m \in 0..MaxTitleLen}

InitSanitize ==
    /\ raw \in Titles
    /\ sanitized = <<>>
    /\ tree = [p \in Paths |-> "absent"]
    /\ mk_log = <<>>
    /\ ConfigIdle
    /\ InitRun

\* sanitize_filename applied to the title, then once more to its own result
SanitizeFilename ==
    /\ Len(sanitized) < 2
    /\ sanitized' = Append(sanitized,
                           sanitize_filename(IF sanitized = <<>> THEN raw
                                             ELSE sanitized[Len(sanitized)]))
    /\ UNCHANGED <<raw, tree, mk_log>>
    /\ UNCHANGED <<config, pc, raised_at, total_videos, queue, inflight,
                   future, results, failed_videos, still_failed,
                   success_count, attempt, pos, maincall, calls, log,
                   completed, stage, files, names, reported>>

NextSanitize == SanitizeFilename

SpecSanitize == InitSanitize /\ [][NextSanitize]_vars

\* ---- create_output_directory on its own ------------------------------------
\* a file or directory exists only inside a directory
ConsistentTree(fs) ==
    \A p \in Paths : fs[p] # "absent" => Kind(fs, Parent(p)) = "dir"

InitMkdir ==
    /\ tree \in [Paths -> {"absent", "dir", "file"}]
    /\ ConsistentTree(tree)
    /\ mk_log = <<>>
    /\ raw = <<>>
    /\ sanitized = <<>>
    /\ ConfigIdle
    /\ InitRun

\* one call create_output_directory(p)
CreateOutputDirectory ==
    /\ Len(mk_log) < MaxCalls
    /\ \E p \in Paths :
          LET r == create_output_directory(tree, p)
          IN /\ tree' = r.fs
             /\ mk_log' = Append(mk_log,
                    [path |-> p, before |-> tree,
                     status |-> IF r.err = "none" THEN "returned" ELSE "raised",
                     ret |-> IF r.err = "none" THEN p ELSE <<>>])
    /\ UNCHANGED <<raw, sanitized>>
    /\ UNCHANGED <<config, pc, raised_at, total_videos, queue, inflight,
                   future, results, failed_videos, still_failed,
                   success_count, attempt, pos, maincall, calls, log,
                   completed, stage, files, names, reported>>

NextMkdir == CreateOutputDirectory

SpecMkdir == InitMkdir /\ [][NextMkdir]_vars

\* ---- properties -----------------------------------------------------------
IsAscending(s) == \A k \in 1..(Len(s) - 1) : s[k] < s[k + 1]

AllFalse(s) == \A k \in 1..Len(s) : s[k] = "False"

RECURSIVE MaxOf(_)
MaxOf(S) ==
    IF S = {} THEN 0
    ELSE LET x == CHOOSE y \in S : TRUE
             m == MaxOf(S \ {x})
         IN IF x > m THEN x ELSE m

\* retry rounds an item took part in, maximised over the batch
MaxRetriesOfAnItem == MaxOf({calls[i] - 1 : i \in 1..n} \cup {0})

\* the pool of pass 0 was created and has been left
Pass0Over ==
    /\ target = "playlist"
    /\ \/ pc \in {"retry_for", "retry_item", "retry_call", "summary", "done"}
       \/ pc = "raised" /\ raised_at \in {"pass0", "retry", "summary"}

\* C1: once pass 0 has been tallied, after every completed retry round and
\* when download_playlist returns, success_count + len(failed_videos) equals
\* the number of items of the batch.
C1_TallyInvariant ==
    (target = "playlist" /\ pc \in {"retry_for", "summary", "done"})
        => success_count + Len(failed_videos) = total_videos

C1_Witness ==
    /\ target = "playlist"
    /\ pc = "done"
    /\ attempt >= 1
    /\ failed_videos # <<>>
    /\ success_count >= 1
    /\ total_videos > max_concurrent

\* C2: when download_playlist returns, an item is in the failed list if and
\* only if every attempt made on it (pass 0 and each retry executed) returned
\* False; an item with a successful attempt is not in the list.
C2_FinalFailedIff ==
    (target = "playlist" /\ pc = "done")
        => \A i \in 1..total_videos :
              /\ Len(log[i]) >= 1
              /\ InSeq(i, failed_videos) <=> AllFalse(log[i])

C2_Witness ==
    /\ target = "playlist"
    /\ pc = "done"
    /\ \E i \in 1..total_videos : InSeq(i, failed_videos) /\ Len(log[i]) >= 2
    /\ \E i \in 1..total_videos :
          /\ ~InSeq(i, failed_videos)
          /\ Len(log[i]) >= 2
          /\ log[i][1] = "False"

\* C3: during pass 0 the number of download_single_video calls started and
\* not yet returned never exceeds max_concurrent.
C3_ConcurrencyBound ==
    /\ pc \in {"collect", "shutdown"} => Cardinality(inflight) <= max_concurrent
    /\ pc \notin {"collect", "shutdown"} => inflight = {}

C3_Witness ==
    /\ max_concurrent >= 2
    /\ Cardinality(inflight) = max_concurrent
    /\ queue # <<>>

\* C4: the failed list (after pass 0, after each retry round, in the summary)
\* is in strictly ascending index order whatever the completion order of the
\* pass-0 tasks.
C4_FailedSorted == IsAscending(failed_videos) /\ IsAscending(still_failed)

C4_Witness ==
    /\ pc = "done"
    /\ Len(failed_videos) >= 2
    /\ ~IsAscending(completed)

\* C5: an error inside one item's download becomes a False outcome of that
\* item: no call of download_single_video ends with an exception, and pass 0
\* is never aborted by one.
C5_ErrorsBecomeFalse ==
    /\ \A i \in Videos : ~InSeq("Raise", log[i])
    /\ raised_at # "pass0"

\* C6: in pass 0 every item is attempted exactly once whatever happens to the
\* other items, and the pass is over only when every task has returned.
C6_Pass0AttemptsAll ==
    /\ pc \in {"collect", "shutdown"} => \A i \in 1..n : calls[i] <= 1
    /\ Pass0Over => (inflight = {} /\ \A i \in 1..n : calls[i] >= 1)

\* C7: with retry False no item is attempted more than once.
C7_NoRetryWhenDisabled == ~retry => \A i \in Videos : calls[i] <= 1

C7_Witness ==
    /\ ~retry
    /\ retry_attempts >= 1
    /\ target = "playlist"
    /\ pc = "done"
    /\ Len(failed_videos) >= 2

\* C8: with retry True and retry_attempts = N >= 0 every item is attempted at
\* most N + 1 times.
C8_AttemptBound ==
    (retry /\ retry_attempts >= 0)
        => \A i \in Videos : calls[i] <= retry_attempts + 1

C8_Witness ==
    /\ retry
    /\ retry_attempts >= 2
    /\ pc = "done"
    /\ \E i \in 1..n : calls[i] = retry_attempts + 1
    /\ \E i \in 1..n : calls[i] = 1

\* C9: no retry round starts while the failed list is empty, so the number of
\* rounds run is the number of retries of the item retried most often; when
\* the list is empty at the end, success_count is the total.
C9_RetryStopsWhenEmpty ==
    [][/\ attempt' # attempt => failed_videos # <<>>
       /\ (target = "playlist" /\ pc' = "done") =>
             /\ attempt' = MaxRetriesOfAnItem'
             /\ failed_videos' = <<>> => success_count' = total_videos']_vars

C9_Witness ==
    /\ target = "playlist"
    /\ pc = "done"
    /\ retry
    /\ retry_attempts >= 2
    /\ attempt = 1
    /\ failed_videos = <<>>
    /\ Len(TallyFailed(results)) >= 2
    /\ success_count = total_videos

\* C10: with max_concurrent <= 0 download() raises and no
\* download_single_video call is ever started, for a playlist and for a
\* single item.
C10_ConfigRejected ==
    max_concurrent <= 0
        => /\ \A i \in Videos : calls[i] = 0
           /\ pc # "done"

\* calls of download_single_video started and not yet returned
RECURSIVE InFlightCount(_)
InFlightCount(S) ==
    IF S = {} THEN 0
    ELSE LET i == CHOOSE j \in S : TRUE
         IN (calls[i] - Len(log[i])) + InFlightCount(S \ {i})

RetryPhase == pc \in {"retry_for", "retry_item", "retry_call"}

\* item i was attempted in round k - 1 (pass 0 is round 0) and returned False
FailedInRound(i, k) == Len(log[i]) >= k /\ log[i][k] = "False"

\* success_count is maintained from here on
CountedPhase ==
    \/ /\ target = "playlist"
       /\ \/ pc \in {"retry_for", "retry_item", "retry_call", "summary", "done"}
          \/ pc = "raised" /\ raised_at \in {"retry", "summary"}
    \/ target = "single" /\ pc = "done"

\* C11: when the playlist title or its list of videos cannot be resolved the
\* invocation aborts with the error and no download_single_video call has
\* been dispatched.
C11_EnumerationAborts ==
    raised_at = "enumerate"
        => /\ pc = "raised"
           /\ \A i \in Videos : calls[i] = 0 /\ future[i] = "none"
           /\ inflight = {}
           /\ queue = <<>>
           /\ maincall = <<>>

C11_Witness ==
    /\ raised_at = "enumerate"
    /\ pc = "raised"
    /\ n >= 2
    /\ max_concurrent >= 1

\* C17: no retry attempt starts while a pass-0 task is in flight, and during
\* the retry phase at most one download_single_video call is in flight.
C17_RetrySequential ==
    /\ (RetryPhase \/ attempt >= 1 \/ (target = "playlist" /\ maincall # <<>>))
          => /\ inflight = {}
             /\ queue = <<>>
             /\ \A i \in 1..n : future[i] \in {"True", "False"}
    /\ RetryPhase => InFlightCount(Videos) <= 1

C17_Witness ==
    /\ pc = "retry_call"
    /\ max_concurrent >= 2
    /\ Len(failed_videos) >= 2
    /\ ~IsAscending(completed)
    /\ InFlightCount(Videos) = 1

\* C18: in a retry round the failed items are re-attempted in ascending index
\* order, and a round re-attempts exactly the items that failed in the round
\* before (round 1: the items that failed in pass 0).
C18_RetryOrder ==
    [][/\ (pc = "retry_item" /\ pc' = "retry_call") =>
             LET v == maincall'[1] IN
             /\ Len(log[v]) = attempt
             /\ FailedInRound(v, attempt)
             /\ \A i \in 1..n :
                   /\ (i < v /\ FailedInRound(i, attempt))
                         => Len(log[i]) = attempt + 1
                   /\ i > v => calls[i] <= attempt
       /\ (pc = "retry_item" /\ pc' \in {"retry_for", "summary"}) =>
             \A i \in 1..n : FailedInRound(i, attempt) <=> calls[i] = attempt + 1
      ]_vars

C18_Witness ==
    /\ pc = "retry_for"
    /\ attempt = 2
    /\ \E i, j \in 1..n : i < j /\ calls[i] = 3 /\ calls[j] = 3
    /\ \E i \in 1..n : calls[i] = 2

\* C19: an item that has succeeded is never attempted again and counts once:
\* success_count is the number of items with a successful attempt, never
\* exceeds the number of items and never decreases.
C19_SuccessCountedOnce ==
    [][/\ \A i \in Videos : InSeq("True", log[i]) => calls'[i] = calls[i]
       /\ success_count' >= success_count
       /\ success_count' <= n
       /\ CountedPhase' =>
             success_count' = Cardinality({i \in Videos : InSeq("True", log'[i])})
      ]_vars

C19_Witness ==
    /\ target = "playlist"
    /\ pc = "done"
    /\ attempt >= 2
    /\ \E i \in 1..n : log[i] = <<"False", "True">> /\ calls[i] = 2
    /\ \E i \in 1..n : calls[i] = 3

Last(str) == str[Len(str)]

Mp4Ext == <<".", "m", "p", "4">>

\* the name the design gives the file of video v: sanitized title, extension
\* mp3 only for audio-only mp3, two-digit index prefix only when an index is
\* passed (playlist items) and prefix_index is set
ExpectedName(v) ==
    (IF target = "playlist" /\ prefix_index THEN Pad2(v) \o <<"_">> ELSE <<>>)
    \o sanitize_filename(title[v])
    \o (IF audio_only /\ audio_format = "mp3"
        THEN <<".", "m", "p", "3">> ELSE Mp4Ext)

\* final name's stem with an .mp4 extension
FallbackName(v) ==
    SubSeq(ExpectedName(v), 1, Len(ExpectedName(v)) - 4) \o Mp4Ext

\* every path a call on video v may write
PathsOf(v) ==
    {NameOf(v, IndexOf(v)),
     TempName(NameOf(v, IndexOf(v)), audio_only, audio_format),
     WithSuffixMp4(NameOf(v, IndexOf(v)))}

\* C12: audio-only mp3 with the bytes transferred: a call never ends in a
\* failure, whatever the transcoder does; it returns True and, unless the
\* mp3 was produced, the bytes are kept under the final stem with .mp4.
C12_TranscodeFallback ==
    [][\A v \in Videos :
          (Mp3Mode(audio_only, audio_format)
               /\ stage[v] = "post" /\ stage'[v] = "idle")
            => /\ Last(log'[v]) = "True"
               /\ \/ ExpectedName(v) \in DOMAIN files'
                  \/ /\ FallbackName(v) \in DOMAIN files'
                     /\ files'[FallbackName(v)] = v
      ]_vars

\* C13: a target that is not a playlist bypasses the orchestrator: one call
\* with index None (no prefix in the file name), no pool, no retry round, and
\* a summary of total 1 with 1 or 0 succeeded.
C13_SingleBypass ==
    target = "single"
        => /\ calls[1] <= 1 /\ \A i \in Videos : i > 1 => calls[i] = 0
           /\ maincall \in {<<>>, <<1, None>>}
           /\ inflight = {} /\ queue = <<>>
           /\ \A i \in Videos : future[i] = "none"
           /\ attempt = 0 /\ failed_videos = <<>> /\ results = <<>>
           /\ \A f \in names[1] :
                 f = sanitize_filename(title[1]) \o <<".">>
                        \o Ext(audio_only, audio_format)
           /\ pc = "done" =>
                 /\ calls[1] = 1
                 /\ Len(log[1]) = 1
                 /\ reported[1] = 1
                 /\ reported[2] = (IF log[1][1] = "True" THEN 1 ELSE 0)

C13_Witness ==
    /\ target = "single"
    /\ pc = "done"
    /\ prefix_index
    /\ retry
    /\ retry_attempts >= 1
    /\ log[1] = <<"False">>
    /\ names[1] # {}

\* C14: the file name of a call is sanitize(title) + extension, mp3 exactly
\* for audio-only mp3, prefixed with the two-digit index and "_" exactly when
\* an index is passed and prefix_index is set; index 3, "Clip", not audio-only
\* gives "03_Clip.mp4"; pass 0 and every retry compute the same name.
C14_FileName ==
    /\ \A v \in Videos : names[v] \subseteq {ExpectedName(v)}
    /\ \A af \in {"mp3", "mp4"} :
          FileName(<<"C", "l", "i", "p">>, 3, TRUE, FALSE, af)
             = <<"0", "3", "_", "C", "l", "i", "p", ".", "m", "p", "4">>

C14_Witness ==
    /\ target = "playlist"
    /\ prefix_index
    /\ audio_only
    /\ audio_format = "mp4"
    /\ \E v \in 1..n :
          /\ calls[v] = 2
          /\ stage[v] = "post"
          /\ names[v] # {}
          /\ title[v] # sanitize_filename(title[v])

\* C20: two calls in flight together in pass 0 never write to the same
\* temporary or final path.
C20_DistinctPaths ==
    \A v, w \in inflight : v # w => PathsOf(v) \cap PathsOf(w) = {}

\* the characters of s strictly between positions lo and hi that are not
\* forbidden, in order
Kept(s, lo, hi) ==
    SelectSeq(SubSeq(s, lo + 1, hi - 1), LAMBDA c : c \notin Forbidden)

\* s with everything outside (lo, hi) droppable: forbidden or whitespace
Droppable(s, lo, hi) ==
    \A k \in 1..Len(s) :
        (k <= lo \/ k >= hi) => s[k] \in Forbidden \cup Whitespace

\* C15: the result of sanitize_filename is its input with the forbidden
\* characters deleted and the outer whitespace trimmed, the other characters
\* kept in order; a second application changes nothing; the playlist folder
\* name and the stem of an item's file name are that result.
C15_Sanitize ==
    sanitized # <<>> =>
        LET out == sanitized[1] IN
        /\ \A k \in 1..Len(out) : out[k] \notin Forbidden
        /\ out # <<>> => (out[1] \notin Whitespace
                            /\ out[Len(out)] \notin Whitespace)
        /\ \E lo \in 0..Len(raw), hi \in 1..(Len(raw) + 1) :
              /\ lo < hi
              /\ Droppable(raw, lo, hi)
              /\ out = Kept(raw, lo, hi)
        /\ Len(sanitized) = 2 => sanitized[2] = out
        /\ playlist_folder_name(raw) = out
        /\ \A af \in {"mp3", "mp4"}, ao \in BOOLEAN :
              /\ FileName(raw, None, TRUE, ao, af) = out \o <<".">> \o Ext(ao, af)
              /\ FileName(raw, 3, TRUE, ao, af)
                   = <<"0", "3", "_">> \o out \o <<".">> \o Ext(ao, af)

\* a title with forbidden characters outside its whitespace, sanitized twice
C15_Witness ==
    /\ Len(sanitized) = 2
    /\ Len(raw) = 3
    /\ raw[1] \in Forbidden
    /\ raw[2] \in Whitespace
    /\ raw[3] \notin Forbidden \cup Whitespace
    /\ sanitized[1] = <<raw[3]>>

\* no file stands where p or one of its parents should be
NoFileOnPath(fs, p) ==
    \A k \in 1..Len(p) : Kind(fs, SubSeq(p, 1, k)) # "file"

IsPrefix(q, p) == Len(q) <= Len(p) /\ q = SubSeq(p, 1, Len(q))

\* filesystem after the k-th call of create_output_directory
TreeAfter(k) == IF k = Len(mk_log) THEN tree ELSE mk_log[k + 1].before

\* C16: create_output_directory(p) returns whenever no file is in the way,
\* whether or not p or its parents existed; after it returns p is a
\* directory, the value returned is p and only p and its parents were
\* created; a second call on the same path returns and changes nothing.
C16_CreateIdempotent ==
    \A k \in 1..Len(mk_log) :
        LET c == mk_log[k] IN
        /\ NoFileOnPath(c.before, c.path) => c.status = "returned"
        /\ c.status = "returned" =>
              /\ Kind(TreeAfter(k), c.path) = "dir"
              /\ c.ret = c.path
              /\ \A q \in Paths :
                    TreeAfter(k)[q] # c.before[q]
                       => (IsPrefix(q, c.path) /\ c.before[q] = "absent")
        /\ (k > 1 /\ mk_log[k - 1].path = c.path
                  /\ mk_log[k - 1].status = "returned")
              => (c.status = "returned" /\ TreeAfter(k) = c.before)

\* the first call creates p and its parent, the second finds them there
C16_Witness ==
    /\ Len(mk_log) = 2
    /\ mk_log[1].path = mk_log[2].path
    /\ Len(mk_log[1].path) = 2
    /\ mk_log[1].before[Parent(mk_log[1].path)] = "absent"
    /\ mk_log[1].status = "returned"
    /\ mk_log[2].status = "returned"
    /\ tree[mk_log[2].path] = "dir"

TypeOK ==
    /\ pc \in {"download", "single_call", "download_playlist", "executor",
               "collect", "shutdown", "retry_for", "retry_item", "retry_call",
               "summary", "done", "raised"}
    /\ raised_at \in {"none", "single", "enumerate", "executor", "pass0",
                      "retry", "summary", "create_output_directory"}
    /\ \A v \in Videos : stage[v] # "idle" <=>
          (v \in inflight \/ (maincall # <<>> /\ maincall[1] = v))
    /\ inflight \subseteq 1..n
    /\ success_count \in 0..MaxVideos
    /\ attempt \in 0..MaxRetryAttempts
====
